---- MODULE Spec2Model ----
\* Model of the to-do store of todo.py: the whole-file load / modify / save
\* operations (add_task, mark_done, delete_tasks, edit_task, clear_tasks) and
\* the list_tasks query, run one after another on one data file.
EXTENDS Integers, Sequences, FiniteSets, TLC

\* ------------------------------------------------------------------ bounds
\* The clock stops at MaxClock; add_task is called while next_id <= MaxId.
MaxClock == 1
MaxId == 2

\* Python's None and a present value of an Optional field.
None == <<>>
Some(v) == <<v>>
Val(o) == o[1]

\* Inputs the front ends hand to the operations.
Titles == {"a", "b"}
\* Calendar dates YYYY-MM-DD as the number YYYYMMDD: the order of the ISO
\* strings (fixed width, zero padded) is the order of these numbers.
Dates == {20250101, 20250201}
OptDates == {None} \cup {Some(d) : d \in Dates}
OptTitles == {None} \cup {Some(t) : t \in Titles}
Ids == 1..MaxId
IdSets == {s \in SUBSET Ids : Cardinality(s) \in 1..2}
Procs == {"cli", "web"}
Kinds == {"pending", "all", "done"}

VARIABLES
    file,       \* todos.json: None when absent, else Some([next_id, tasks])
    now,        \* the UTC clock, in seconds
    webStart,   \* the clock when the web server process imported todo.py
    op,         \* the last operation called, with its arguments
    ret,        \* what that call returned
    maxIssued,  \* history: the greatest id an add_task call has returned
    fresh,      \* history: clear_tasks("all") ran and no add_task since
    run         \* per process: the operation it is in the middle of, if any

vars == <<file, now, webStart, op, ret, maxIssued, fresh, run>>

\* The record of a call: the operation's name and the arguments it was given.
Call(name, ids, title, due, clear_due, undone, mode) ==
    [name |-> name, ids |-> ids, title |-> title, due |-> due,
     clear_due |-> clear_due, undone |-> undone, mode |-> mode]

\* ------------------------------------------------------------ persistence
EmptyData == [next_id |-> 1, tasks |-> <<>>]

\* Mutant of Task.from_dict: created_at is always taken from the clock.
FromDict_Restamp(d, t) ==
    [id |-> d.id, title |-> d.title, completed |-> d.completed,
     created_at |-> Some(t), due |-> d.due, completed_at |-> d.completed_at]

\* int() of the text of a record whose id is a JSON string; a text outside
\* this domain makes int() raise ValueError.
IntOfText == ("1" :> 1) @@ ("2" :> 2) @@ ("3" :> 3)

\* Task.from_dict: the id is coerced to a number, completed defaults to False,
\* created_at falls back to the clock when the record has none.
FromDict(d, t) ==
    [id |-> IF "id" \in DOMAIN d THEN d.id ELSE IntOfText[d.id_text],
     title |-> d.title,
     completed |-> IF "completed" \in DOMAIN d THEN d.completed ELSE FALSE,
     created_at |-> IF d.created_at = None THEN Some(t) ELSE d.created_at,
     due |-> d.due, completed_at |-> d.completed_at]

\* What a file holds when json.load gives a dict: the two keys of the
\* collection. Any other content is written as a record of other fields.
Parses(c) == DOMAIN c = {"next_id", "tasks"}

\* int(d["id"]) succeeds: a record whose id is a JSON string is written with
\* the field id_text instead of id.
Coercible(d) == "id" \in DOMAIN d \/ d.id_text \in DOMAIN IntOfText

\* The exception load_data ends with (SystemExit, ValueError, KeyError,
\* TypeError): none is caught by an operation.
Raised == [raised |-> "load_data"]

\* Whether load_data raises on a file that exists.
LoadRaises(c) ==
    \/ ~Parses(c)
    \/ \E i \in 1..Len(c.tasks) : ~Coercible(c.tasks[i])

\* Mutant of load_data: a file that cannot be read is taken as empty.
LoadData_Swallow(f, t) ==
    IF f = None \/ LoadRaises(Val(f)) THEN EmptyData
    ELSE [next_id |-> Val(f).next_id,
          tasks |-> [i \in 1..Len(Val(f).tasks) |-> FromDict(Val(f).tasks[i], t)]]

\* load_data: an absent file is the empty collection; every record of a
\* present file goes through Task.from_dict; a file that cannot be read this
\* way raises.
LoadData(f, t) ==
    IF f = None THEN EmptyData
    ELSE IF LoadRaises(Val(f)) THEN Raised
    ELSE [next_id |-> Val(f).next_id,
          tasks |-> [i \in 1..Len(Val(f).tasks) |-> FromDict(Val(f).tasks[i], t)]]

\* A title json.load accepts (the escape \ud800, a lone surrogate) and the
\* utf-8 encoder of the opened file refuses.
Surrogate == "\\ud800"

\* The text can be written to a file opened with encoding="utf-8".
Encodes(text) == text # Surrogate

\* json.dump with ensure_ascii=False raises UnicodeEncodeError part way.
SaveRaises(data) == \E i \in 1..Len(data.tasks) : ~Encodes(data.tasks[i].title)

\* What open("w") and the writes before the exception leave in the file: the
\* start of a JSON document, which json.load rejects.
Truncated == [text |-> "{"]

SaveFailed == [raised |-> "save_data"]

\* save_data: the whole collection overwrites the file; the file is truncated
\* when it is opened, before the first write.
SaveData(data) == IF SaveRaises(data) THEN Some(Truncated) ELSE Some(data)

\* What the caller gets of an operation that saved into f: its result, or the
\* exception of save_data.
Outcome(f, result) == IF f = Some(Truncated) THEN SaveFailed ELSE result

\* ------------------------------------------------------------- operations
\* A call whose load_data raised: it ends there, nothing is saved.
Abort(c) ==
    /\ op' = c
    /\ ret' = Raised
    /\ UNCHANGED <<file, now, webStart, maxIssued, fresh, run>>

\* Task(id=tid, title=title, due=due): created_at is the dataclass default,
\* evaluated once when the process imported the module.
NewTask(tid, title, due, imported) ==
    [id |-> tid, title |-> title, completed |-> FALSE,
     created_at |-> Some(imported), due |-> due, completed_at |-> None]

\* Mutant of add_task: next_id is left as it was.
AddTaskData_NoIncrement(data, title, due, imported) ==
    [next_id |-> data.next_id,
     tasks |-> Append(data.tasks, NewTask(data.next_id, title, due, imported))]

\* add_task, from the loaded collection to the saved one.
AddTaskData(data, title, due, imported) ==
    [next_id |-> data.next_id + 1,
     tasks |-> Append(data.tasks, NewTask(data.next_id, title, due, imported))]

\* The import time of the process serving the call: a CLI invocation is a
\* fresh process, the web server imported the module when it started.
ImportTime(proc) == IF proc = "cli" THEN now ELSE webStart

Add(proc, title, due) ==
    LET data == LoadData(file, now) IN
    IF data = Raised THEN Abort(Call("add", {}, Some(title), due, FALSE, FALSE, proc))
    ELSE
    /\ data.next_id <= MaxId
    /\ file' = SaveData(AddTaskData(data, title, due, ImportTime(proc)))
    /\ op' = Call("add", {}, Some(title), due, FALSE, FALSE, proc)
    /\ ret' = Outcome(file', NewTask(data.next_id, title, due, ImportTime(proc)))
    /\ maxIssued' = IF data.next_id > maxIssued /\ ret' # SaveFailed
                    THEN data.next_id ELSE maxIssued
    /\ fresh' = FALSE
    /\ UNCHANGED <<now, webStart, run>>

\* Mutant of mark_done: every pending record is stamped, whatever its id.
MarkRaw_AnyId(raw, ids, t) ==
    IF ~raw.completed
    THEN [raw EXCEPT !.completed = TRUE, !.completed_at = Some(t)]
    ELSE raw

\* Mutant of mark_done: a record that is already done is stamped again.
MarkRaw_Restamp(raw, ids, t) ==
    IF raw.id \in ids
    THEN [raw EXCEPT !.completed = TRUE, !.completed_at = Some(t)]
    ELSE raw

\* mark_done, one record: stamped when its id is asked for and it is pending.
MarkRaw(raw, ids, t) ==
    IF raw.id \in ids /\ ~raw.completed
    THEN [raw EXCEPT !.completed = TRUE, !.completed_at = Some(t)]
    ELSE raw

\* mark_done, from the loaded collection to the saved one.
MarkDoneData(data, ids, t) ==
    [data EXCEPT !.tasks = [i \in 1..Len(data.tasks) |-> MarkRaw(data.tasks[i], ids, t)]]

\* mark_done's return value: the records it stamped, in stored order.
MarkDoneUpdated(data, ids, t) ==
    LET hit == SelectSeq(data.tasks, LAMBDA raw : raw.id \in ids /\ ~raw.completed)
    IN [i \in 1..Len(hit) |-> FromDict(MarkRaw(hit[i], ids, t), t)]

MarkDone(ids) ==
    LET data == LoadData(file, now) IN
    IF data = Raised THEN Abort(Call("mark_done", ids, None, None, FALSE, FALSE, ""))
    ELSE
    /\ file' = SaveData(MarkDoneData(data, ids, now))
    /\ op' = Call("mark_done", ids, None, None, FALSE, FALSE, "")
    /\ ret' = Outcome(file', MarkDoneUpdated(data, ids, now))
    /\ UNCHANGED <<now, webStart, maxIssued, fresh, run>>

\* Mutant of delete_tasks: the loop stops at the first record it removes.
DeleteTasksData_First(data, ids) ==
    LET hit == {i \in 1..Len(data.tasks) : data.tasks[i].id \in ids}
        k == IF hit = {} THEN 0 ELSE CHOOSE i \in hit : \A j \in hit : i <= j
    IN [data EXCEPT !.tasks = SubSeq(data.tasks, 1, k - 1)
                              \o SubSeq(data.tasks, k + 1, Len(data.tasks))]

\* Mutant of delete_tasks: next_id falls back to one past the greatest id left.
DeleteTasksData_Reuse(data, ids) ==
    LET left == SelectSeq(data.tasks, LAMBDA raw : raw.id \notin ids)
        top(k) == \A j \in 1..Len(left) : left[j].id <= k
    IN [next_id |-> 1 + (CHOOSE k \in 0..data.next_id : top(k) /\ \A m \in 0..(k - 1) : ~top(m)),
        tasks |-> left]

\* delete_tasks, from the loaded collection to the saved one.
DeleteTasksData(data, ids) ==
    [data EXCEPT !.tasks = SelectSeq(data.tasks, LAMBDA raw : raw.id \notin ids)]

Delete(ids) ==
    LET data == LoadData(file, now)
        after == DeleteTasksData(data, ids)
    IN
    IF data = Raised THEN Abort(Call("delete", ids, None, None, FALSE, FALSE, ""))
    ELSE
    /\ file' = SaveData(after)
    /\ op' = Call("delete", ids, None, None, FALSE, FALSE, "")
    /\ ret' = Outcome(file', Len(data.tasks) - Len(after.tasks))
    /\ UNCHANGED <<now, webStart, maxIssued, fresh, run>>

\* Mutant of edit_task: a due date given together with clear_due wins.
EditRaw_DueWins(raw, title, due, clear_due, undone) ==
    LET r1 == IF title # None THEN [raw EXCEPT !.title = Val(title)] ELSE raw
        r2 == IF due # None THEN [r1 EXCEPT !.due = due]
              ELSE IF clear_due THEN [r1 EXCEPT !.due = None]
              ELSE r1
    IN IF undone /\ r2.completed
       THEN [r2 EXCEPT !.completed = FALSE, !.completed_at = None]
       ELSE r2

\* Mutant of edit_task: undone forgets to clear completed_at.
EditRaw_KeepStamp(raw, title, due, clear_due, undone) ==
    LET r1 == IF title # None THEN [raw EXCEPT !.title = Val(title)] ELSE raw
        r2 == IF clear_due THEN [r1 EXCEPT !.due = None]
              ELSE IF due # None THEN [r1 EXCEPT !.due = due]
              ELSE r1
    IN IF undone /\ r2.completed THEN [r2 EXCEPT !.completed = FALSE] ELSE r2

\* edit_task, the record it found.
EditRaw(raw, title, due, clear_due, undone) ==
    LET r1 == IF title # None THEN [raw EXCEPT !.title = Val(title)] ELSE raw
        r2 == IF clear_due THEN [r1 EXCEPT !.due = None]
              ELSE IF due # None THEN [r1 EXCEPT !.due = due]
              ELSE r1
    IN IF undone /\ r2.completed
       THEN [r2 EXCEPT !.completed = FALSE, !.completed_at = None]
       ELSE r2

\* edit_task's loop: the position of the first record with the id, 0 if none.
FindFirst(tasks, id) ==
    IF \E i \in 1..Len(tasks) : tasks[i].id = id
    THEN CHOOSE i \in 1..Len(tasks) :
            /\ tasks[i].id = id
            /\ \A j \in 1..(i - 1) : tasks[j].id # id
    ELSE 0

\* Mutant of edit_task: the collection is saved also when the id is not found.
EditTaskFile_AlwaysSave(f, t, id, title, due, clear_due, undone) ==
    LET data == LoadData(f, t)
        hit == {i \in 1..Len(data.tasks) : data.tasks[i].id = id}
    IN SaveData([data EXCEPT !.tasks =
           [i \in 1..Len(data.tasks) |->
               IF i \in hit /\ \A j \in hit : i <= j
               THEN [data.tasks[i] EXCEPT
                        !.title = IF title # None THEN Val(title) ELSE @,
                        !.due = IF clear_due THEN None ELSE IF due # None THEN due ELSE @,
                        !.completed = IF undone THEN FALSE ELSE @,
                        !.completed_at = IF undone THEN None ELSE @]
               ELSE data.tasks[i]]])

\* edit_task's file afterwards: saved when the id was found, untouched if not.
EditTaskFile(f, t, id, title, due, clear_due, undone) ==
    LET data == LoadData(f, t)
        k == FindFirst(data.tasks, id)
    IN IF k = 0 THEN f
       ELSE SaveData([data EXCEPT !.tasks[k] = EditRaw(data.tasks[k], title, due, clear_due, undone)])

\* edit_task's return value: the updated Task, or None.
EditTaskResult(f, t, id, title, due, clear_due, undone) ==
    LET data == LoadData(f, t)
        k == FindFirst(data.tasks, id)
    IN IF k = 0 THEN None
       ELSE Some(FromDict(EditRaw(data.tasks[k], title, due, clear_due, undone), t))

Edit(id, title, due, clear_due, undone) ==
    IF LoadData(file, now) = Raised
    THEN Abort(Call("edit", {id}, title, due, clear_due, undone, ""))
    ELSE
    /\ file' = EditTaskFile(file, now, id, title, due, clear_due, undone)
    /\ op' = Call("edit", {id}, title, due, clear_due, undone, "")
    /\ ret' = Outcome(file', EditTaskResult(file, now, id, title, due, clear_due, undone))
    /\ UNCHANGED <<now, webStart, maxIssued, fresh, run>>

\* Mutant of clear_tasks: mode "all" forgets to reset next_id.
ClearTasksData_NoReset(data, mode) ==
    IF mode = "done"
    THEN [data EXCEPT !.tasks = SelectSeq(data.tasks, LAMBDA raw : ~raw.completed)]
    ELSE [data EXCEPT !.tasks = <<>>]

\* clear_tasks, from the loaded collection to the saved one.
ClearTasksData(data, mode) ==
    IF mode = "done"
    THEN [data EXCEPT !.tasks = SelectSeq(data.tasks, LAMBDA raw : ~raw.completed)]
    ELSE [next_id |-> 1, tasks |-> <<>>]

Clear(mode) ==
    LET data == LoadData(file, now)
        after == ClearTasksData(data, mode)
    IN
    IF data = Raised THEN Abort(Call("clear", {}, None, None, FALSE, FALSE, mode))
    ELSE
    /\ file' = SaveData(after)
    /\ op' = Call("clear", {}, None, None, FALSE, FALSE, mode)
    /\ ret' = Outcome(file', Len(data.tasks) - Len(after.tasks))
    /\ fresh' = (mode = "all" \/ fresh)
    /\ UNCHANGED <<now, webStart, maxIssued, run>>

ClearDone == Clear("done")

ClearAll == Clear("all")

\* ------------------------------------------------------------------ query
\* "9999-12-31", the due date list_tasks sorts a task without one by.
Sentinel == 99991231
\* "", the completed_at list_tasks sorts a task without one by: it is below
\* every timestamp.
EmptyKey == -1

\* Mutant of the sort key: a task without a due date sorts by "".
DueKey_EmptyFirst(t) ==
    <<0, IF t.due = None THEN -1 ELSE Val(t.due), Val(t.created_at)>>

\* The sort key of the pending and all views:
\* ((t.due is None, t.due or "9999-12-31"), t.created_at).
DueKey(t) ==
    <<IF t.due = None THEN 1 ELSE 0,
      IF t.due = None THEN Sentinel ELSE Val(t.due),
      Val(t.created_at)>>

\* Python's order of two such keys.
KeyLess(a, b) ==
    \/ a[1] < b[1]
    \/ a[1] = b[1] /\ a[2] < b[2]
    \/ a[1] = b[1] /\ a[2] = b[2] /\ a[3] < b[3]

\* Mutant of the done view's key: an absent completed_at is the greatest key.
DoneKey_AbsentHigh(t) ==
    IF t.completed_at = None THEN Sentinel ELSE Val(t.completed_at)

\* The sort key of the done view: t.completed_at or "".
DoneKey(t) == IF t.completed_at = None THEN EmptyKey ELSE Val(t.completed_at)

\* Whether list.sort puts a strictly before b in the view of this kind
\* (reverse=True for the done view).
Before(kind, a, b) ==
    IF kind = "done" THEN DoneKey(a) > DoneKey(b)
    ELSE KeyLess(DueKey(a), DueKey(b))

\* list.sort is stable: x goes behind every element it is not strictly before.
Insert(kind, x, s) ==
    LET first == {i \in 1..Len(s) : Before(kind, x, s[i])}
        k == IF first = {} THEN Len(s) + 1
             ELSE CHOOSE i \in first : \A j \in first : i <= j
    IN SubSeq(s, 1, k - 1) \o <<x>> \o SubSeq(s, k, Len(s))

RECURSIVE SortTasks(_, _)
SortTasks(kind, s) ==
    IF s = <<>> THEN <<>>
    ELSE Insert(kind, s[Len(s)], SortTasks(kind, SubSeq(s, 1, Len(s) - 1)))

\* Mutant of the filter: the done view is not filtered.
Keep_DoneAll(kind, t) == IF kind = "pending" THEN ~t.completed ELSE TRUE

\* The filter of list_tasks.
Keep(kind, t) ==
    IF kind = "pending" THEN ~t.completed
    ELSE IF kind = "done" THEN t.completed
    ELSE TRUE

\* list_tasks: load, rebuild every Task, filter, sort.
ListTasks(f, t, kind) ==
    LET data == LoadData(f, t)
        tasks == [i \in 1..Len(data.tasks) |-> FromDict(data.tasks[i], t)]
    IN SortTasks(kind, SelectSeq(tasks, LAMBDA x : Keep(kind, x)))

List(kind) ==
    IF LoadData(file, now) = Raised
    THEN Abort(Call("list", {}, None, None, FALSE, FALSE, kind))
    ELSE
    /\ op' = Call("list", {}, None, None, FALSE, FALSE, kind)
    /\ ret' = ListTasks(file, now, kind)
    /\ UNCHANGED <<file, now, webStart, maxIssued, fresh, run>>

\* ------------------------------------------------------------- statistics
\* The dates date.today() gives: on, between and after the due dates.
Todays == Dates \cup {20250301}

\* How many tasks of a sequence are completed.
CountDone(tasks) == Cardinality({i \in 1..Len(tasks) : tasks[i].completed})

\* Mutant of stats: a task due today counts as overdue.
StatsOf_DueToday(data, today) ==
    LET total == Len(data.tasks)
        done == CountDone(data.tasks)
    IN [total |-> total, pending |-> total - done, done |-> done,
        overdue |-> Cardinality({i \in 1..Len(data.tasks) :
                        LET x == data.tasks[i]
                        IN ~x.completed /\ x.due # None /\ Val(x.due) <= today})]

\* stats, from the loaded collection and today's date.
StatsOf(data, today) ==
    LET total == Len(data.tasks)
        done == CountDone(data.tasks)
    IN [total |-> total, pending |-> total - done, done |-> done,
        overdue |-> Cardinality({i \in 1..Len(data.tasks) :
                        LET x == data.tasks[i]
                        IN ~x.completed /\ x.due # None /\ Val(x.due) < today})]

\* stats; the call is recorded with the date it read from date.today().
Stats(today) ==
    IF LoadData(file, now) = Raised
    THEN Abort(Call("stats", {}, None, Some(today), FALSE, FALSE, ""))
    ELSE
    /\ op' = Call("stats", {}, None, Some(today), FALSE, FALSE, "")
    /\ ret' = StatsOf(LoadData(file, now), today)
    /\ UNCHANGED <<file, now, webStart, maxIssued, fresh, run>>

\* ------------------------------------------------------------- front ends
\* Titles as they are typed: sequences of characters.
Whitespace == {" ", "\t"}

RawTitles == {<<>>, <<" ">>, <<"\t", " ">>, <<"a">>, <<" ", "a">>, <<"a", " ">>}

RECURSIVE StripLeft(_)
StripLeft(s) ==
    IF s # <<>> /\ Head(s) \in Whitespace THEN StripLeft(Tail(s)) ELSE s

RECURSIVE StripRight(_)
StripRight(s) ==
    IF s # <<>> /\ s[Len(s)] \in Whitespace
    THEN StripRight(SubSeq(s, 1, Len(s) - 1)) ELSE s

\* str.strip()
Strip(s) == StripRight(StripLeft(s))

\* The string of a sequence of characters.
RECURSIVE Join(_)
Join(s) == IF s = <<>> THEN "" ELSE Head(s) \o Join(Tail(s))

\* A handler that flashes a warning and redirects: no operation is called.
Flash ==
    /\ op' = Call("flash", {}, None, None, FALSE, FALSE, "")
    /\ ret' = None
    /\ UNCHANGED <<file, now, webStart, maxIssued, fresh, run>>

\* main, cmd == "add": args.title goes to add_task as typed.
CliAdd(raw, due) == Add("cli", Join(raw), due)

\* main, cmd == "edit": args.title goes to edit_task as typed, None without
\* --title.
CliEdit(id, raw, due, clear_due, undone) ==
    Edit(id, IF raw = None THEN None ELSE Some(Join(Val(raw))), due, clear_due, undone)

\* app.add: the title is stripped, an empty one is refused.
WebAdd(raw, due) ==
    IF Strip(raw) = <<>> THEN Flash ELSE Add("web", Join(Strip(raw)), due)

\* app.edit, POST: the task is looked up first, then the title is stripped
\* and an empty one is refused.
WebEdit(id, raw, due, clear_due, undone) ==
    LET data == LoadData(file, now) IN
    IF data = Raised
    THEN Abort(Call("edit", {id}, Some(Join(Strip(raw))), due, clear_due, undone, ""))
    ELSE IF FindFirst(data.tasks, id) = 0 \/ Strip(raw) = <<>> THEN Flash
    ELSE Edit(id, Some(Join(Strip(raw))), due, clear_due, undone)

\* ------------------------------------------------- operations in two steps
\* The collection an operation changes and saves: the one its load_data
\* returned, whatever the file holds by the time it saves.
Basis_Reload(snapshot, f, t) == LoadData(f, t)

Basis(snapshot, f, t) == snapshot

\* What the operation of call c saves, from the collection it works on.
After(c, data, t) ==
    CASE c.name = "add" ->
            AddTaskData(data, Val(c.title), c.due, IF c.mode = "cli" THEN t ELSE webStart)
      [] c.name = "mark_done" -> MarkDoneData(data, c.ids, t)
      [] c.name = "delete" -> DeleteTasksData(data, c.ids)
      [] c.name = "clear" -> ClearTasksData(data, c.mode)

\* What the operation of call c returns.
Result(c, data, t) ==
    CASE c.name = "add" ->
            NewTask(data.next_id, Val(c.title), c.due, IF c.mode = "cli" THEN t ELSE webStart)
      [] c.name = "mark_done" -> MarkDoneUpdated(data, c.ids, t)
      [] c.name = "delete" -> Len(data.tasks) - Len(DeleteTasksData(data, c.ids).tasks)
      [] c.name = "clear" -> Len(data.tasks) - Len(ClearTasksData(data, c.mode).tasks)

\* The other of the two processes.
Other(p) == CHOOSE q \in Procs : q # p

\* The first statement of an operation: load_data. The process keeps what it
\* read; stale tells whether the other process has saved since.
LoadStep(p, c) ==
    LET data == LoadData(file, now) IN
    /\ run[p].pc # "loaded"
    /\ data # Raised
    /\ c.name = "add" => data.next_id <= MaxId
    /\ run' = [run EXCEPT ![p] = [pc |-> "loaded", call |-> c, data |-> data,
                                  t |-> now, stale |-> FALSE]]
    /\ UNCHANGED <<file, now, webStart, op, ret, maxIssued, fresh>>

\* The last statements of an operation: save_data and return. The process
\* is left with the name of the other process's operation it saved over.
SaveStep(p) ==
    /\ run[p].pc = "loaded"
    /\ LET c == run[p].call
           data == Basis(run[p].data, file, run[p].t)
           q == Other(p)
       IN /\ file' = SaveData(After(c, data, run[p].t))
          /\ op' = c
          /\ ret' = Outcome(file', Result(c, data, run[p].t))
          /\ run' = [run EXCEPT
                        ![p] = [pc |-> "saved",
                                over |-> IF run[p].stale THEN op.name ELSE ""],
                        ![q] = IF run[q].pc = "loaded"
                               THEN [run[q] EXCEPT !.stale = TRUE] ELSE run[q]]
    /\ UNCHANGED <<now, webStart, maxIssued, fresh>>

\* ------------------------------------------------------------ environment
\* No process is in the middle of an operation.
Idle == [pc |-> "idle"]

NoRun == [p \in Procs |-> Idle]

Tick ==
    /\ now < MaxClock
    /\ now' = now + 1
    /\ UNCHANGED <<file, webStart, op, ret, maxIssued, fresh, run>>

Init ==
    /\ file = None
    /\ now = 0
    /\ webStart = 0
    /\ op = Call("none", {}, None, None, FALSE, FALSE, "")
    /\ ret = None
    /\ maxIssued = 0
    /\ fresh = FALSE
    /\ run = NoRun

\* Records of files this program did not write, as load_data accepts them:
\* without created_at, completed without completed_at, the id as a string and
\* no completed key, a title with a lone surrogate.
LegacyKinds == {"plain", "unstamped", "done_undated", "done", "text_id", "surrogate"}

LegacyTask(i, kind) ==
    IF kind = "text_id"
    THEN [id_text |-> CHOOSE x \in DOMAIN IntOfText : IntOfText[x] = i,
          title |-> "a", created_at |-> Some(0), due |-> None,
          completed_at |-> None]
    ELSE [id |-> i,
          title |-> IF kind = "surrogate" THEN Surrogate ELSE "a",
          completed |-> kind \in {"done_undated", "done"},
          created_at |-> IF kind = "unstamped" THEN None ELSE Some(0),
          due |-> None,
          completed_at |-> IF kind = "done" THEN Some(0) ELSE None]

LegacyFiles ==
    UNION {{[next_id |-> n + 1, tasks |-> [i \in 1..n |-> LegacyTask(i, k[i])]] :
                k \in [1..n -> LegacyKinds]} : n \in 0..MaxId}

InitLegacy ==
    /\ file \in {Some(c) : c \in LegacyFiles}
    /\ now = 0
    /\ webStart = 0
    /\ op = Call("none", {}, None, None, FALSE, FALSE, "")
    /\ ret = None
    /\ maxIssued = 0
    /\ fresh = FALSE
    /\ run = NoRun

\* Files load_data cannot read: text that is no JSON, a JSON list at the
\* root, a record whose id is no number, alone and after a good record.
CorruptFiles ==
    {Truncated,
     [root |-> "list"],
     [next_id |-> 2, tasks |-> <<[LegacyTask(1, "text_id") EXCEPT !.id_text = "x"]>>],
     [next_id |-> 3, tasks |-> <<LegacyTask(1, "plain"),
                                 [LegacyTask(2, "text_id") EXCEPT !.id_text = "x"]>>]}

InitCorrupt ==
    /\ file \in {Some(c) : c \in CorruptFiles}
    /\ now = 0
    /\ webStart = 0
    /\ op = Call("none", {}, None, None, FALSE, FALSE, "")
    /\ ret = None
    /\ maxIssued = 0
    /\ fresh = FALSE
    /\ run = NoRun

\* --------------------------------------------------------- specifications
AddWith(P, T, D) == \E p \in P, t \in T, d \in D : Add(p, t, d)

EditWith(T, D, C, U) ==
    \E id \in Ids, t \in T, d \in D, c \in C, u \in U : Edit(id, t, d, c, u)

DoMarkDone == \E ids \in IdSets : MarkDone(ids)

DoDelete == \E ids \in IdSets : Delete(ids)

DoList == \E k \in Kinds : List(k)

DoStats == \E d \in Todays : Stats(d)

\* Every operation with every input.
Next ==
    \/ AddWith(Procs, Titles, OptDates)
    \/ DoMarkDone
    \/ DoDelete
    \/ EditWith(OptTitles, OptDates, BOOLEAN, BOOLEAN)
    \/ ClearDone
    \/ ClearAll
    \/ DoList
    \/ DoStats
    \/ Tick

Spec == Init /\ [][Next]_vars

\* Every operation with every input, on a file that cannot be read.
SpecCorrupt == InitCorrupt /\ [][Next]_vars

\* The life cycle of tasks (ids, completion, removal): titles and due dates
\* are held fixed, edit_task only reverts tasks to pending.
LifeNoReset ==
    \/ AddWith(Procs, {"a"}, {None})
    \/ DoMarkDone
    \/ DoDelete
    \/ EditWith({None}, {None}, {FALSE}, BOOLEAN)
    \/ ClearDone
    \/ Tick

SpecNoReset == Init /\ [][LifeNoReset]_vars

NextLife == LifeNoReset \/ ClearAll

SpecLife == Init /\ [][NextLife]_vars

\* Editing: tasks added through the web server with one title and with or
\* without a due date, edited to another title and another due date.
NextEdit ==
    \/ AddWith({"web"}, {"a"}, {None, Some(20250101)})
    \/ EditWith({None, Some("b")}, {None, Some(20250201)}, BOOLEAN, BOOLEAN)
    \/ Tick

SpecEdit == Init /\ [][NextEdit]_vars

\* Listing: every due date, tasks added by CLI invocations as the clock runs.
NextList ==
    \/ AddWith({"cli"}, {"a"}, OptDates)
    \/ DoMarkDone
    \/ DoList
    \/ Tick

SpecList == Init /\ [][NextList]_vars

\* Adding and renaming tasks through the two front ends.
DoCliAdd == \E raw \in RawTitles : CliAdd(raw, None)

DoCliEdit ==
    \E id \in Ids, raw \in {None} \cup {Some(r) : r \in RawTitles} :
        CliEdit(id, raw, None, FALSE, FALSE)

DoWebAdd == \E raw \in RawTitles : WebAdd(raw, None)

DoWebEdit == \E id \in Ids, raw \in RawTitles : WebEdit(id, raw, None, FALSE, FALSE)

NextFront ==
    \/ DoCliAdd
    \/ DoCliEdit
    \/ DoWebAdd
    \/ DoWebEdit

SpecFront == Init /\ [][NextFront]_vars

\* The web front end alone.
NextWeb ==
    \/ DoWebAdd
    \/ DoWebEdit

SpecWeb == Init /\ [][NextWeb]_vars

\* Two processes, each operation in its two steps.
RaceCalls(p) ==
    {Call("add", {}, Some(IF p = "cli" THEN "a" ELSE "b"), None, FALSE, FALSE, p),
     Call("mark_done", {1}, None, None, FALSE, FALSE, ""),
     Call("delete", {1}, None, None, FALSE, FALSE, ""),
     Call("clear", {}, None, None, FALSE, FALSE, "all")}

DoLoad == \E p \in Procs : \E c \in RaceCalls(p) : LoadStep(p, c)

DoSave == \E p \in Procs : SaveStep(p)

NextRace ==
    \/ DoLoad
    \/ DoSave

SpecRace == Init /\ [][NextRace]_vars

\* Operations on a file found in place.
NextLegacy ==
    \/ DoMarkDone
    \/ DoDelete
    \/ DoList
    \/ Tick

SpecLegacy == InitLegacy /\ [][NextLegacy]_vars

\* Statistics: every due date, tasks pending and completed, every today.
NextStats ==
    \/ AddWith({"cli"}, {"a"}, OptDates)
    \/ DoMarkDone
    \/ DoStats

SpecStats == Init /\ [][NextStats]_vars

\* Listing tasks added by CLI invocations and through the web server, which
\* imported todo.py when the clock was webStart.
NextOrder ==
    \/ AddWith(Procs, {"a"}, {None, Some(20250101)})
    \/ DoList
    \/ Tick

SpecOrder == Init /\ [][NextOrder]_vars

\* ------------------------------------------------------------------ claims
\* The collection a file holds: an absent file is the empty collection.
TasksOf(f) == IF f = None THEN <<>> ELSE Val(f).tasks

NextIdOf(f) == IF f = None THEN 1 ELSE Val(f).next_id

StoredIds(f) == {TasksOf(f)[i].id : i \in 1..Len(TasksOf(f))}

\* A step of an operation: the clock moves in Tick steps alone.
CallStep == now' = now

IsClearAll(c) == c.name = "clear" /\ c.mode = "all"

\* C1: without clear_tasks("all"), every add_task returns an id greater than
\* the id every earlier add_task returned, also after delete_tasks or
\* clear_tasks("done") removed the task that held it.
C1_IdsStrictlyIncrease ==
    [][(CallStep /\ op'.name = "add") => ret'.id > maxIssued]_vars

\* add_task returned an id above 1 although the earlier tasks are gone.
C1_Witness ==
    /\ op.name = "add"
    /\ ret.id = 2
    /\ StoredIds(file) = {2}

\* C2: clear_tasks("all") empties the collection, sets next_id to 1 and
\* returns how many tasks it removed; the next add_task after it returns
\* id 1; no other operation lowers next_id.
C2_ClearAllResets ==
    [][CallStep =>
        /\ IsClearAll(op') =>
              /\ file' = Some([next_id |-> 1, tasks |-> <<>>])
              /\ ret' = Len(TasksOf(file))
        /\ (op'.name = "add" /\ fresh) => ret'.id = 1
        /\ ~IsClearAll(op') => NextIdOf(file') >= NextIdOf(file)]_vars

\* add_task returned id 1 again after id 2 had been issued.
C2_Witness ==
    /\ op.name = "add"
    /\ ret.id = 1
    /\ maxIssued = 2
    /\ NextIdOf(file) = 2

\* C3: every stored task has a completed_at exactly when it is completed.
C3_CompletedAtIffCompleted ==
    \A i \in 1..Len(TasksOf(file)) :
        (TasksOf(file)[i].completed_at # None) <=> TasksOf(file)[i].completed

\* edit_task with undone returned a pending task without completed_at, next
\* to a task that is still completed.
C3_Witness ==
    /\ op.name = "edit"
    /\ op.undone
    /\ ret # None
    /\ ~Val(ret).completed
    /\ Val(ret).completed_at = None
    /\ \E i \in 1..Len(TasksOf(file)) :
          /\ TasksOf(file)[i].completed
          /\ TasksOf(file)[i].completed_at # None

\* C4: mark_done(ids) stamps completed = True and completed_at = now on
\* exactly the stored tasks that are pending and whose id is in ids, and
\* returns exactly those; done tasks keep their completed_at, ids that are
\* not stored are skipped, every other task and next_id stay as they were.
C4_MarkDoneExact ==
    [][(CallStep /\ op'.name = "mark_done") =>
        LET old == TasksOf(file)
            new == TasksOf(file')
            hit == {i \in 1..Len(old) : old[i].id \in op'.ids /\ ~old[i].completed}
        IN /\ file' # None
           /\ NextIdOf(file') = NextIdOf(file)
           /\ Len(new) = Len(old)
           /\ \A i \in 1..Len(old) :
                 new[i] = IF i \in hit
                          THEN [old[i] EXCEPT !.completed = TRUE,
                                              !.completed_at = Some(now)]
                          ELSE old[i]
           /\ Len(ret') = Cardinality(hit)
           /\ {ret'[k] : k \in 1..Len(ret')} = {new[i] : i \in hit}]_vars

\* mark_done({1, 2}) stamped task 2 and left task 1, done earlier, alone.
C4_Witness ==
    /\ op.name = "mark_done"
    /\ op.ids = {1, 2}
    /\ Len(ret) = 1
    /\ ret[1].id = 2
    /\ ret[1].completed_at = Some(now)
    /\ Len(TasksOf(file)) = 2
    /\ TasksOf(file)[1].completed
    /\ TasksOf(file)[1].completed_at # Some(now)

\* C5: a second mark_done([id]) right after the first, the clock having
\* moved or not, changes nothing in the file and returns no task.
C5_MarkDoneIdempotent ==
    [][(/\ CallStep
        /\ op.name = "mark_done"
        /\ op'.name = "mark_done"
        /\ Cardinality(op.ids) = 1
        /\ op'.ids = op.ids) => (file' = file /\ ret' = <<>>)]_vars

\* mark_done([id]) returned nothing for a task stamped before the clock moved.
C5_Witness ==
    /\ op.name = "mark_done"
    /\ Cardinality(op.ids) = 1
    /\ ret = <<>>
    /\ \E i \in 1..Len(TasksOf(file)) :
          /\ TasksOf(file)[i].id \in op.ids
          /\ TasksOf(file)[i].completed
          /\ TasksOf(file)[i].completed_at # Some(now)

C6_EditChangesOnlyThatTask ==
    [][(CallStep /\ op'.name = "edit" /\ op'.ids \subseteq StoredIds(file)) =>
        LET old == TasksOf(file)
            new == TasksOf(file')
        IN /\ NextIdOf(file') = NextIdOf(file)
           /\ Len(new) = Len(old)
           /\ \A i \in 1..Len(old) :
                 IF old[i].id \in op'.ids
                 THEN /\ new[i].id = old[i].id
                      /\ new[i].created_at = old[i].created_at
                      /\ new[i].title = IF op'.title # None THEN Val(op'.title)
                                        ELSE old[i].title
                      /\ new[i].due = IF op'.clear_due THEN None
                                      ELSE IF op'.due # None THEN op'.due
                                      ELSE old[i].due
                 ELSE new[i] = old[i]]_vars

\* edit_task was given a title, a due date and clear_due for the second of
\* two tasks, after the clock moved: the title is the new one, the due date
\* is gone, created_at is still the old one.
C6_Witness ==
    /\ op.name = "edit"
    /\ op.ids = {2}
    /\ op.title = Some("b")
    /\ op.due # None
    /\ op.clear_due
    /\ now > 0
    /\ Len(TasksOf(file)) = 2
    /\ TasksOf(file)[1].due # None
    /\ TasksOf(file)[2] = [id |-> 2, title |-> "b", completed |-> FALSE,
                           created_at |-> Some(0), due |-> None,
                           completed_at |-> None]
    /\ ret = Some(TasksOf(file)[2])

\* C7: edit_task on an id that is not stored returns None and saves nothing:
\* the file is as it was, whatever the other arguments.
C7_EditNotFoundNoSave ==
    [][(CallStep /\ op'.name = "edit" /\ op'.ids \cap StoredIds(file) = {}) =>
        (ret' = None /\ file' = file)]_vars

\* edit_task returned None and the data file is still absent.
C7_Witness ==
    /\ op.name = "edit"
    /\ op.title # None
    /\ ret = None
    /\ file = None

\* The ids of a list of tasks.
IdsIn(l) == {l[i].id : i \in 1..Len(l)}

\* C9: the pending view and the done view partition the all view, as sets
\* of ids, and the all view holds exactly the stored ids.
C9_ListPartition ==
    LET P == IdsIn(ListTasks(file, now, "pending"))
        D == IdsIn(ListTasks(file, now, "done"))
        A == IdsIn(ListTasks(file, now, "all"))
    IN /\ P \cup D = A
       /\ P \cap D = {}
       /\ A = StoredIds(file)

\* list_tasks("all") returned a pending and a completed task.
C9_Witness ==
    /\ op.name = "list"
    /\ op.mode = "all"
    /\ Len(ret) = 2
    /\ \E i, j \in 1..2 : ret[i].completed /\ ~ret[j].completed

\* C10: in what list_tasks returns for pending and all, a task with a due
\* date is before every task without one, and of two tasks with different
\* due dates the one with the earlier date is first.
C10_DueOrder ==
    (op.name = "list" /\ op.mode \in {"pending", "all"}) =>
        /\ IdsIn(ret) = {TasksOf(file)[i].id : i \in
               {k \in 1..Len(TasksOf(file)) :
                   op.mode = "all" \/ ~TasksOf(file)[k].completed}}
        /\ \A i, j \in 1..Len(ret) :
              /\ (ret[i].due # None /\ ret[j].due = None) => i < j
              /\ (/\ ret[i].due # None
                  /\ ret[j].due # None
                  /\ Val(ret[i].due) < Val(ret[j].due)) => i < j

\* list_tasks("pending") put a task with a due date, created later, before
\* a task without one.
C10_Witness ==
    /\ op.name = "list"
    /\ op.mode = "pending"
    /\ Len(ret) = 2
    /\ ret[1].due # None
    /\ ret[2].due = None
    /\ Val(ret[1].created_at) > Val(ret[2].created_at)

\* The place of the task with this id in the stored sequence: add_task
\* appends, so an earlier place is an earlier add_task call.
PlaceOf(f, id) == CHOOSE i \in 1..Len(TasksOf(f)) : TasksOf(f)[i].id = id

\* C11: in what list_tasks returns for pending and all, two tasks with the
\* same due date, or both without one, are in the order of their add_task
\* calls, whichever process made each call.
C11_TiesInCreationOrder ==
    (op.name = "list" /\ op.mode \in {"pending", "all"}) =>
        \A i, j \in 1..Len(ret) :
            (/\ ret[i].due = ret[j].due
             /\ PlaceOf(file, ret[i].id) < PlaceOf(file, ret[j].id)) => i < j

\* C12: stats returns total = the number of tasks, done = the number of
\* completed ones, pending = total - done, overdue = the number of pending
\* tasks whose due date is strictly before today; so overdue <= pending.
C12_StatsCounts ==
    op.name = "stats" =>
        LET T == TasksOf(file)
            today == Val(op.due)
            n(S) == Cardinality(S)
        IN /\ ret.total = Len(T)
           /\ ret.done = n({i \in 1..Len(T) : T[i].completed})
           /\ ret.pending = ret.total - ret.done
           /\ ret.overdue = n({i \in 1..Len(T) :
                                 /\ ~T[i].completed
                                 /\ T[i].due # None
                                 /\ Val(T[i].due) < today})
           /\ ret.overdue <= ret.pending

\* stats counted one of two pending tasks as overdue: the other is due today.
C12_Witness ==
    /\ op.name = "stats"
    /\ ret = [total |-> 2, pending |-> 2, done |-> 0, overdue |-> 1]
    /\ \E i \in 1..2 : TasksOf(file)[i].due = op.due

\* A call that changes no task: delete_tasks of ids the collection does not
\* hold, mark_done of ids that are missing or already completed. Each loads
\* the collection and saves it as loaded.
SavesAsLoaded(c, data) ==
    \/ c.name = "delete" /\ c.ids \cap IdsIn(data.tasks) = {}
    \/ /\ c.name = "mark_done"
       /\ \A i \in 1..Len(data.tasks) :
              data.tasks[i].id \in c.ids => data.tasks[i].completed

\* C13: for a file load_data accepts, saving what was loaded leaves next_id
\* and every task's id, title, completed, created_at, due and completed_at
\* as a later load_data reads them equal to those of the load before.
C13_RoundTrip ==
    [][(/\ CallStep
        /\ LoadData(file, now) # Raised
        /\ SavesAsLoaded(op', LoadData(file, now)))
       => \A t \in 0..MaxClock : LoadData(file', t) = LoadData(file, now)]_vars

\* The same for the files whose texts the encoder accepts.
RoundTripEncodable ==
    [][(/\ CallStep
        /\ LoadData(file, now) # Raised
        /\ ~SaveRaises(LoadData(file, now))
        /\ SavesAsLoaded(op', LoadData(file, now)))
       => \A t \in 0..MaxClock : LoadData(file', t) = LoadData(file, now)]_vars

\* C14: when the file exists and load_data cannot read it (no JSON, root not
\* an object, a record whose id is no number), every operation ends with the
\* error of its load step: the file stays as it was and nothing is returned.
C14_CorruptAborts ==
    [][(CallStep /\ file # None /\ LoadRaises(Val(file)))
       => (file' = file /\ DOMAIN ret' = {"raised"})]_vars

\* mark_done of the good first record ended with the load error: the second
\* record's id is no number.
C14_Witness ==
    /\ op.name = "mark_done"
    /\ op.ids = {1}
    /\ DOMAIN ret = {"raised"}
    /\ file # None
    /\ Parses(Val(file))
    /\ Len(Val(file).tasks) = 2

\* A title that is empty or holds whitespace only.
Blank(text) == \E r \in RawTitles : Join(r) = text /\ Strip(r) = <<>>

\* C15: on every front-end path and for every title typed, add_task and
\* edit_task are never called with a title that is empty or whitespace only,
\* and no stored task has such a title.
C15_NoBlankTitle ==
    /\ (op.name \in {"add", "edit"} /\ op.title # None) => ~Blank(Val(op.title))
    /\ \A i \in 1..Len(TasksOf(file)) : ~Blank(TasksOf(file)[i].title)

\* Process p saves in this step, after the other process saved since p loaded:
\* both had loaded before either saved.
SavesStale(p) == run[p].pc = "loaded" /\ run[p].stale /\ run'[p].pc = "saved"

\* C16: when two operations of different processes have both loaded before
\* either saves, the later save writes the file from its own snapshot and
\* both callers get a result; a task the other process was returned by its
\* add_task, and that the snapshot does not hold, is not in the file.
C16_LostUpdate ==
    [][\A p \in Procs : SavesStale(p) =>
          LET mine == run[p]
          IN /\ file' = Some(After(mine.call, mine.data, mine.t))
             /\ ret' = Result(mine.call, mine.data, mine.t)
             /\ (/\ op.name = "add"
                 /\ \A i \in 1..Len(mine.data.tasks) : mine.data.tasks[i] # ret)
                => /\ ret.title = Val(op.title)
                   /\ \A i \in 1..Len(TasksOf(file')) : TasksOf(file')[i] # ret]_vars

\* A process added a task over the other's add_task: both had loaded the
\* empty collection, both got task 1, the file holds the later one alone.
C16_Witness ==
    /\ \E p \in Procs : run[p].pc = "saved" /\ run[p].over = "add"
    /\ op.name = "add"
    /\ ret.id = 1
    /\ TasksOf(file) = <<ret>>

\* C19: in every reachable state, also when the load and save steps of the
\* operations of two processes interleave, the tasks of the file have
\* pairwise different ids and next_id is greater than each of them.
C19_IdsDistinctBelowNextId ==
    LET T == TasksOf(file) IN
    /\ \A i, j \in 1..Len(T) : T[i].id = T[j].id => i = j
    /\ \A i \in 1..Len(T) : T[i].id < NextIdOf(file)

\* A process saved its add_task over the other's operations and the file
\* holds two tasks.
C19_Witness ==
    /\ \E p \in Procs : run[p].pc = "saved" /\ run[p].over # ""
    /\ op.name = "add"
    /\ Len(TasksOf(file)) = 2
    /\ NextIdOf(file) = 3

\* C17: created_at is set by add_task and never changes: after every call of
\* another operation, a task that is still in the collection has the
\* created_at it had before, and add_task stores the created_at it returned.
C17_CreatedAtImmutable ==
    [][CallStep =>
          LET T == TasksOf(file)
              U == TasksOf(file')
          IN IF op'.name = "add"
             THEN /\ U = Append(T, ret')
                  /\ ret'.created_at # None
             ELSE \A i \in 1..Len(T), j \in 1..Len(U) :
                      U[j].id = T[i].id => U[j].created_at = T[i].created_at]_vars

\* mark_done at clock 1 completed a task created at clock 0: the file still
\* holds created_at 0 for it.
C17_Witness ==
    /\ op.name = "mark_done"
    /\ now = 1
    /\ \E i \in 1..Len(TasksOf(file)) :
           /\ TasksOf(file)[i].completed_at = Some(1)
           /\ TasksOf(file)[i].created_at = Some(0)

\* C18: list_tasks("done"), of a file it can load, returns the completed
\* tasks, a later completed_at before an earlier one, and a task without
\* completed_at after every task that has one.
C18_DoneOrder ==
    (op.name = "list" /\ op.mode = "done" /\ LoadData(file, now) # Raised) =>
        LET T == LoadData(file, now).tasks IN
        /\ IdsIn(ret) = {T[i].id : i \in {k \in 1..Len(T) : T[k].completed}}
        /\ \A i, j \in 1..Len(ret) :
               i < j =>
                   /\ ret[i].completed_at = None => ret[j].completed_at = None
                   /\ (ret[i].completed_at # None /\ ret[j].completed_at # None)
                      => Val(ret[i].completed_at) >= Val(ret[j].completed_at)

\* The done view moved the stored first task, completed without a
\* completed_at, behind the second, which has one.
C18_Witness ==
    /\ op.name = "list"
    /\ op.mode = "done"
    /\ Len(ret) = 2
    /\ ret[1].id = 2 /\ ret[1].completed_at # None
    /\ ret[2].id = 1 /\ ret[2].completed_at = None
====
